---- MODULE Spec2Model ----
(***************************************************************************)
(* Model of the stable-identifier crate: the identifier container          *)
(* StableId<D> (src/src/id.rs), the domain descriptor IdDomain             *)
(* (src/src/domain.rs), stable type identification (src/src/identify.rs)   *)
(* and the fixed-capacity backing type TinyId<N> with its generator        *)
(* (src/src/tiny_id.rs).                                                   *)
(*                                                                         *)
(* Values.  A byte is a number 0..255.  A byte slice, a &str and a String  *)
(* is a sequence of bytes (a &str is always valid UTF-8), a String is the  *)
(* record [vec |-> <bytes>].  A                                            *)
(* TinyId<N> is the record [text |-> <N bytes>].  A StableId<D> is the     *)
(* record [backing |-> <payload>]; the domain D is a type parameter and    *)
(* so it is an argument of the operators, never a field of the value.      *)
(* A call that can panic returns [ok |-> FALSE, val |-> <<>>].             *)
(***************************************************************************)
EXTENDS Integers, Sequences, FiniteSets

VARIABLES
    op,      \* the last operation the client program performed
    made,    \* the constructor that built the current value
    domain,  \* the domain D of the current identifier(s)
    cap,     \* the const generic N of the TinyId at hand
    input,   \* the argument(s) given to the constructor
    tiny,    \* the TinyId<N> at hand
    id,      \* the identifier at hand
    other,   \* a second identifier of the same domain
    wire,    \* the serialized form produced by the last serialize call
    out,     \* the value returned by the last observing call
    gens,    \* the stateful generator instances the program owns
    issued   \* per generator instance, the identifiers it has returned

vars == <<op, made, domain, cap, input, tiny, id, other, wire, out, gens, issued>>

----------------------------------------------------------------------------
(* Bounds of the model *)

MaxLen == 4        \* longest byte slice / string given to a constructor
MaxCap == 3        \* small capacities 0..MaxCap, besides 16 and 21
MaxPairLen == 2    \* longest payload / constant in a pair of identifiers
MaxSeed == 5       \* number of distinct draws of the random-string source
NumGens == 2       \* stateful generator instances the program owns
MaxCount == 4      \* calls made on one stateful generator instance

(* Program constants *)

DefaultN == 21     \* TinyId<const N: usize = 21>
BirdN == 16        \* tests::has_correct_length: TinyId<16>

\* The bytes the inputs are drawn from: NUL, 'a', 'b', and the two bytes
\* 0xC3 0xA9 of the two-byte character U+00E9.
ByteAlphabet == {0, 97, 98, 195, 169}

Capacities == (0..MaxCap) \cup {BirdN, DefaultN}

Min(a, b) == IF a < b THEN a ELSE b

ByteSeqs(k) == UNION {[1..m -> ByteAlphabet] : m \in 0..k}

----------------------------------------------------------------------------
(* std::str::from_utf8: validity of a byte sequence as UTF-8 *)

IsCont(b) == b >= 128 /\ b <= 191

RECURSIVE Utf8ValidFrom(_, _)
Utf8ValidFrom(bs, i) ==
    IF i > Len(bs) THEN TRUE
    ELSE LET b == bs[i] IN
         IF b < 128 THEN Utf8ValidFrom(bs, i + 1)
         ELSE IF b >= 194 /\ b <= 223
              THEN /\ i + 1 <= Len(bs)
                   /\ IsCont(bs[i + 1])
                   /\ Utf8ValidFrom(bs, i + 2)
         ELSE IF b >= 224 /\ b <= 239
              THEN /\ i + 2 <= Len(bs)
                   /\ IsCont(bs[i + 1])
                   /\ IsCont(bs[i + 2])
                   /\ (b = 224 => bs[i + 1] >= 160)
                   /\ (b = 237 => bs[i + 1] <= 159)
                   /\ Utf8ValidFrom(bs, i + 3)
         ELSE IF b >= 240 /\ b <= 244
              THEN /\ i + 3 <= Len(bs)
                   /\ IsCont(bs[i + 1])
                   /\ IsCont(bs[i + 2])
                   /\ IsCont(bs[i + 3])
                   /\ (b = 240 => bs[i + 1] >= 144)
                   /\ (b = 244 => bs[i + 1] <= 143)
                   /\ Utf8ValidFrom(bs, i + 4)
         ELSE FALSE

Utf8Valid(bs) == Utf8ValidFrom(bs, 1)

\* The values of type &str of at most k bytes.
Strs(k) == {s \in ByteSeqs(k) : Utf8Valid(s)}

\* str::trim_end_matches('\0')
RECURSIVE TrimEndNul(_)
TrimEndNul(s) ==
    IF Len(s) > 0 /\ s[Len(s)] = 0 THEN TrimEndNul(SubSeq(s, 1, Len(s) - 1))
    ELSE s

Panic == [ok |-> FALSE, val |-> <<>>]
Ok(v) == [ok |-> TRUE, val |-> v]

----------------------------------------------------------------------------
(* TinyId<N> *)

\* Mutant: the rest of the buffer is padded with spaces, not with null bytes.
TinyId_from_bytes_SpacePad(n, bytes) ==
    LET copy_len == Min(Len(bytes), n)
    IN  [text |-> [i \in 1..n |-> IF i <= copy_len THEN bytes[i] ELSE 32]]

TinyId_from_bytes(n, bytes) ==
    LET copy_len == Min(Len(bytes), n)
    IN  [text |-> [i \in 1..n |-> IF i <= copy_len THEN bytes[i] ELSE 0]]

TinyId_as_bytes(t) == t.text

\* Mutant: the trailing null bytes are not trimmed.
TinyId_as_str_NoTrim(t) ==
    IF Utf8Valid(TinyId_as_bytes(t)) THEN Ok(TinyId_as_bytes(t)) ELSE Panic

TinyId_as_str(t) ==
    IF Utf8Valid(TinyId_as_bytes(t))
    THEN Ok(TrimEndNul(TinyId_as_bytes(t)))
    ELSE Panic

RECURSIVE TakeWhileNonNul(_, _)
TakeWhileNonNul(text, i) ==
    IF i > Len(text) \/ text[i] = 0 THEN 0
    ELSE 1 + TakeWhileNonNul(text, i + 1)

\* Mutant: every non-null byte is counted, also those after a null byte.
TinyId_len_CountNonNul(t) == Cardinality({i \in 1..Len(t.text) : t.text[i] # 0})

\* Mutant: the capacity is returned, the null bytes are not looked for.
TinyId_len_Capacity(t) == Len(t.text)

TinyId_len(t) == TakeWhileNonNul(t.text, 1)

TinyId_is_empty(t) == TinyId_len(t) = 0

\* impl FromStr for TinyId<N>; the Err type is Infallible
TinyId_from_str(n, s) == TinyId_from_bytes(n, s)

\* impl From<&str> for TinyId<N>
TinyId_from(n, value) == TinyId_from_str(n, value)

----------------------------------------------------------------------------
(* Domains: the domain descriptors the crate's tests and macro declare *)

Domains == {"Dog", "Cat", "Tool", "Bird"}

\* type Backing: String for Dog, Cat and Tool, TinyId<N> for Bird
\* const NAME, as bytes: "Bird", "Cat", "Dog", "Tool"
IdDomain_NAME(D) ==
    CASE D = "Bird" -> <<66, 105, 114, 100>>
      [] D = "Cat" -> <<67, 97, 116>>
      [] D = "Dog" -> <<68, 111, 103>>
      [] D = "Tool" -> <<84, 111, 111, 108>>

TinyDomain(D) == D = "Bird"

----------------------------------------------------------------------------
(* StableId<D> *)

\* Mutant: the container is built with an empty payload, not with `value`.
StableId_new_Empty(value) == [backing |-> [text |-> <<>>]]

StableId_new(value) == [backing |-> value]

StableId_backing(self) == self.backing

StableId_into_backing(self) == self.backing

\* impl PartialEq for the backing type.  String compares its bytes; TinyId
\* derives PartialEq, which compares the field text.
Backing_eq(a, b) == a = b

\* impl Ord for String (TinyId derives no ordering): lexicographic order
\* of the bytes.
RECURSIVE BytesCmp(_, _, _)
BytesCmp(a, b, i) ==
    IF i > Len(a) /\ i > Len(b) THEN "Equal"
    ELSE IF i > Len(a) THEN "Less"
    ELSE IF i > Len(b) THEN "Greater"
    ELSE IF a[i] < b[i] THEN "Less"
    ELSE IF a[i] > b[i] THEN "Greater"
    ELSE BytesCmp(a, b, i + 1)

Backing_cmp(a, b) == BytesCmp(a.vec, b.vec, 1)

\* impl PartialOrd for String
Backing_partial_cmp(a, b) == <<"Some", Backing_cmp(a, b)>>

\* impl Hash for the backing type: what it writes to the hasher `state`.
\* A String writes its bytes and then 0xff; the derived Hash of TinyId
\* hashes the array text, which writes its length and then its bytes.
Backing_hash(D, v, state) ==
    IF TinyDomain(D) THEN state \o <<Len(v.text)>> \o v.text
    ELSE state \o v.vec \o <<255>>

StableId_eq(self, rhs) == Backing_eq(self.backing, rhs.backing)

StableId_partial_cmp(self, rhs) == Backing_partial_cmp(self.backing, rhs.backing)

StableId_cmp(self, rhs) == Backing_cmp(self.backing, rhs.backing)

\* Mutant: the domain name is hashed together with the payload.
StableId_hash_WithName(D, self, state) ==
    Backing_hash(D, self.backing, state \o IdDomain_NAME(D))

StableId_hash(D, self, state) == Backing_hash(D, self.backing, state)

----------------------------------------------------------------------------
(* serde: the serialized form is the value handed to the serializer *)

\* impl Serialize for TinyId<N>: serialize_str(self.as_str()), which
\* panics when as_str panics.
TinyId_serialize(t) ==
    LET s == TinyId_as_str(t)
    IN  IF s.ok THEN Ok(<<"str", s.val>>) ELSE Panic

\* impl Deserialize for TinyId<N>: String::deserialize, then from_str
TinyId_deserialize(n, form) == TinyId_from_str(n, form[2])

\* impl Serialize for String
String_serialize(s) == Ok(<<"str", s.vec>>)

\* impl Deserialize for String
String_deserialize(form) == [vec |-> form[2]]

Backing_serialize(D, v) ==
    IF TinyDomain(D) THEN TinyId_serialize(v) ELSE String_serialize(v)

StableId_serialize(D, self) == Backing_serialize(D, self.backing)

----------------------------------------------------------------------------
\* D::Backing::deserialize
Backing_deserialize(D, n, form) ==
    IF TinyDomain(D) THEN TinyId_deserialize(n, form)
    ELSE String_deserialize(form)

StableId_deserialize(D, n, form) == [backing |-> Backing_deserialize(D, n, form)]

\* impl From<&str> for String
String_from(s) == [vec |-> s]

\* from_value.into(): the conversion of a &str to D::Backing
Into_Backing(D, n, from_value) ==
    IF TinyDomain(D) THEN TinyId_from(n, from_value) ELSE String_from(from_value)

IdDomain_new_id(D, n, from_value) == StableId_new(Into_Backing(D, n, from_value))

\* Mutant: the identifier is built from the domain's name, not from the
\* type's constant.
StableTypeId_stable_type_id_Name(D, n, c) ==
    StableId_new(Into_Backing(D, n, IdDomain_NAME(D)))

\* StableTypeId::stable_type_id with STABLE_TYPE_ID = c
StableTypeId_stable_type_id(D, n, c) == StableId_new(Into_Backing(D, n, c))

----------------------------------------------------------------------------
(* Generation *)

\* Some of the 64 symbols of nanoid's URL-safe alphabet: A z _ - 0
NanoAlphabet == <<65, 122, 95, 45, 48>>

\* nanoid::nanoid!(n): n symbols of the alphabet; `seed` stands for the
\* state of the random source.
nanoid(n, seed) ==
    [i \in 1..n |->
        NanoAlphabet[((seed + i * (1 + (seed % 3))) % Len(NanoAlphabet)) + 1]]

\* Mutant: one symbol too few is asked of the random source.
TinyIdGen_generate_id_Short(n, seed) ==
    StableId_new(TinyId_from_str(n, nanoid(n - 1, seed)))

\* impl GenerateIdStateless<D> for TinyIdGen<N>
TinyIdGen_generate_id(n, seed) == StableId_new(TinyId_from_str(n, nanoid(n, seed)))

\* IdDomain::generate_id, for a domain whose Generator is TinyIdGen<N>
IdDomain_generate_id(n, seed) == TinyIdGen_generate_id(n, seed)

\* A stateful generator that advertises increasing output: a counter whose
\* generate_id_stateful(&mut self) returns the identifier of the current
\* count and then increments it.  The result pairs the identifier returned
\* with the state `self` is left in.
Instances == 1..NumGens

Counter_new == [next |-> 0]

Counter_generate_id_stateful(self) ==
    [id |-> StableId_new(self.next), generator |-> [next |-> self.next + 1]]

\* Mutant: the generator is called on a copy, the caller's instance is not
\* advanced.
IdDomain_generate_id_stateful_OnCopy(generator) ==
    [id |-> Counter_generate_id_stateful(generator).id, generator |-> generator]

\* IdDomain::generate_id_stateful(generator: &mut Self::Generator), for a
\* domain whose Generator is the counter
IdDomain_generate_id_stateful(generator) ==
    Counter_generate_id_stateful(generator)

----------------------------------------------------------------------------
(* The client program: constructors make a value, observers read it. *)

NoTiny == [text |-> <<>>]
NoId == [backing |-> NoTiny]
NoForm == [ok |-> FALSE, val |-> <<>>]

\* The program holds no value.
Init ==
    /\ op = "start"
    /\ made = "none"
    /\ domain = "Dog"
    /\ cap = DefaultN
    /\ input = <<>>
    /\ tiny = NoTiny
    /\ id = NoId
    /\ other = NoId
    /\ wire = NoForm
    /\ out = <<>>
    /\ gens = [g \in Instances |-> Counter_new]
    /\ issued = [g \in Instances |-> <<>>]

\* The values and the generators at hand go out of scope; the program goes
\* on to build others.
Drop ==
    /\ op # "start"
    /\ op' = "start"
    /\ made' = "none"
    /\ domain' = "Dog"
    /\ cap' = DefaultN
    /\ input' = <<>>
    /\ tiny' = NoTiny
    /\ id' = NoId
    /\ other' = NoId
    /\ wire' = NoForm
    /\ out' = <<>>
    /\ gens' = [g \in Instances |-> Counter_new]
    /\ issued' = [g \in Instances |-> <<>>]

\* TinyId::<n>::from_bytes(b)
FromBytes ==
    /\ op = "start"
    /\ \E n \in Capacities, b \in ByteSeqs(MaxLen) :
        /\ op' = "from_bytes"
        /\ made' = "from_bytes"
        /\ domain' = "Bird"
        /\ cap' = n
        /\ input' = b
        /\ tiny' = TinyId_from_bytes(n, b)
        /\ id' = StableId_new(tiny')
        /\ other' = NoId
        /\ wire' = NoForm
        /\ UNCHANGED <<gens, issued>>
        /\ out' = <<>>

\* s.parse::<TinyId<n>>() / TinyId::<n>::from(s)
FromStr ==
    /\ op = "start"
    /\ \E n \in Capacities, s \in Strs(MaxLen) :
        /\ op' = "from_str"
        /\ made' = "from_str"
        /\ domain' = "Bird"
        /\ cap' = n
        /\ input' = s
        /\ tiny' = TinyId_from(n, s)
        /\ id' = StableId_new(tiny')
        /\ other' = NoId
        /\ wire' = NoForm
        /\ UNCHANGED <<gens, issued>>
        /\ out' = <<>>

\* D::new_id(s); for a String domain the capacity plays no part
NewId ==
    /\ op = "start"
    /\ \E D \in Domains, n \in Capacities, s \in Strs(MaxLen) :
        /\ TinyDomain(D) \/ n = DefaultN
        /\ op' = "new_id"
        /\ made' = "new_id"
        /\ domain' = D
        /\ cap' = n
        /\ input' = s
        /\ id' = IdDomain_new_id(D, n, s)
        /\ tiny' = IF TinyDomain(D) THEN StableId_backing(id') ELSE NoTiny
        /\ other' = NoId
        /\ wire' = NoForm
        /\ UNCHANGED <<gens, issued>>
        /\ out' = <<>>

\* StableId::new(v) followed by into_backing(), for a payload v
NewIntoBacking ==
    /\ op = "start"
    /\ \E D \in Domains, n \in Capacities, s \in Strs(MaxLen) :
        /\ TinyDomain(D) \/ n = DefaultN
        /\ op' = "into_backing"
        /\ made' = "new"
        /\ domain' = D
        /\ cap' = n
        /\ input' = Into_Backing(D, n, s)
        /\ id' = StableId_new(input')
        /\ tiny' = IF TinyDomain(D) THEN StableId_backing(id') ELSE NoTiny
        /\ other' = NoId
        /\ wire' = NoForm
        /\ UNCHANGED <<gens, issued>>
        /\ out' = StableId_into_backing(id')

\* Bird::generate_id()
GenerateId ==
    /\ op = "start"
    /\ \E n \in Capacities, seed \in 0..MaxSeed :
        /\ op' = "generate_id"
        /\ made' = "generate_id"
        /\ domain' = "Bird"
        /\ cap' = n
        /\ input' = nanoid(n, seed)
        /\ id' = IdDomain_generate_id(n, seed)
        /\ tiny' = StableId_backing(id')
        /\ other' = NoId
        /\ wire' = NoForm
        /\ UNCHANGED <<gens, issued>>
        /\ out' = <<>>

\* Two types implement StableTypeId<D> with the constants c1 and c2, and
\* stable_type_id() is called on both (tests::id_of_types).
StableTypeIds ==
    /\ op = "start"
    /\ \E D \in {"Tool", "Bird"}, n \in Capacities,
       c1 \in Strs(MaxPairLen), c2 \in Strs(MaxPairLen) :
        /\ TinyDomain(D) \/ n = DefaultN
        /\ c1 # c2
        /\ op' = "stable_type_id"
        /\ made' = "stable_type_id"
        /\ domain' = D
        /\ cap' = n
        /\ input' = <<c1, c2>>
        /\ id' = StableTypeId_stable_type_id(D, n, c1)
        /\ other' = StableTypeId_stable_type_id(D, n, c2)
        /\ tiny' = IF TinyDomain(D) THEN StableId_backing(id') ELSE NoTiny
        /\ wire' = NoForm
        /\ UNCHANGED <<gens, issued>>
        /\ out' = StableId_eq(id', other')

\* Two identifiers of one domain are built from the payloads a and b and
\* compared, ordered and hashed (tests::domain_bounds).
Compare ==
    /\ op = "start"
    /\ \E D \in Domains, n \in Capacities,
       a \in Strs(MaxPairLen), b \in Strs(MaxPairLen) :
        /\ TinyDomain(D) \/ n = DefaultN
        /\ op' = "compare"
        /\ made' = "new"
        /\ domain' = D
        /\ cap' = n
        /\ input' = <<Into_Backing(D, n, a), Into_Backing(D, n, b)>>
        /\ id' = StableId_new(input'[1])
        /\ other' = StableId_new(input'[2])
        /\ tiny' = IF TinyDomain(D) THEN StableId_backing(id') ELSE NoTiny
        /\ wire' = NoForm
        /\ UNCHANGED <<gens, issued>>
        /\ out' = [eq |-> StableId_eq(id', other'),
                   partial_cmp |-> IF TinyDomain(D) THEN <<"None">>
                                   ELSE StableId_partial_cmp(id', other'),
                   cmp |-> IF TinyDomain(D) THEN "None"
                           ELSE StableId_cmp(id', other'),
                   hash |-> <<StableId_hash(D, id', <<>>), StableId_hash(D, other', <<>>)>>]

\* Ticket::generate_id_stateful(&mut gens[g]), on one of the generator
\* instances the program owns; Ticket is a domain with Backing u64.
GenerateIdStateful ==
    /\ op \in {"start", "generate_id_stateful"}
    /\ \E g \in Instances :
        /\ gens[g].next < MaxCount
        /\ LET r == IdDomain_generate_id_stateful(gens[g])
           IN  /\ id' = r.id
               /\ gens' = [gens EXCEPT ![g] = r.generator]
               /\ issued' = [issued EXCEPT ![g] = Append(@, r.id)]
        /\ op' = "generate_id_stateful"
        /\ made' = "generate_id_stateful"
        /\ domain' = "Ticket"
        /\ cap' = DefaultN
        /\ input' = g
        /\ tiny' = NoTiny
        /\ other' = NoId
        /\ wire' = NoForm
        /\ out' = <<>>

HasTiny == made \in {"from_bytes", "from_str", "new_id", "new", "generate_id",
                     "stable_type_id"} /\ TinyDomain(domain)

HasId == made \in {"from_bytes", "from_str", "new_id", "new", "generate_id",
                   "stable_type_id"}

\* tiny.len()
LenCall ==
    /\ HasTiny
    /\ op' = "len"
    /\ out' = TinyId_len(tiny)
    /\ UNCHANGED <<made, domain, cap, input, tiny, id, other, wire, gens, issued>>

\* tiny.is_empty()
IsEmptyCall ==
    /\ HasTiny
    /\ op' = "is_empty"
    /\ out' = TinyId_is_empty(tiny)
    /\ UNCHANGED <<made, domain, cap, input, tiny, id, other, wire, gens, issued>>

\* tiny.as_bytes()
AsBytesCall ==
    /\ HasTiny
    /\ op' = "as_bytes"
    /\ out' = TinyId_as_bytes(tiny)
    /\ UNCHANGED <<made, domain, cap, input, tiny, id, other, wire, gens, issued>>

\* tiny.as_str(), which returns or panics
AsStrCall ==
    /\ HasTiny
    /\ op' = "as_str"
    /\ out' = TinyId_as_str(tiny)
    /\ UNCHANGED <<made, domain, cap, input, tiny, id, other, wire, gens, issued>>

\* id.serialize(serializer), which yields a form or panics
SerializeCall ==
    /\ HasId
    /\ op' = "serialize"
    /\ wire' = StableId_serialize(domain, id)
    /\ out' = Backing_serialize(domain, StableId_backing(id))
    /\ UNCHANGED <<made, domain, cap, input, tiny, id, other, gens, issued>>

\* StableId::<D>::deserialize of the form the last serialize call produced
DeserializeCall ==
    /\ op = "serialize"
    /\ wire.ok
    /\ op' = "deserialize"
    /\ other' = StableId_deserialize(domain, cap, wire.val)
    /\ out' = StableId_eq(other', id)
    /\ UNCHANGED <<made, domain, cap, input, tiny, id, wire, gens, issued>>

Next ==
    \/ FromBytes
    \/ FromStr
    \/ NewId
    \/ NewIntoBacking
    \/ GenerateId
    \/ StableTypeIds
    \/ Compare
    \/ GenerateIdStateful
    \/ LenCall
    \/ IsEmptyCall
    \/ AsBytesCall
    \/ AsStrCall
    \/ SerializeCall
    \/ DeserializeCall
    \/ Drop

Spec == Init /\ [][Next]_vars

----------------------------------------------------------------------------
(* Properties *)

NoNulBefore(b, k) == \A i \in 1..k : b[i] # 0

FromValidStr == made \in {"from_str", "new_id"} /\ TinyDomain(domain)

\* C2: for every payload v, new(v).into_backing() returns v and backing()
\* of new(v) refers to a value equal to v.
C2_NewIntoBacking ==
    op = "into_backing" =>
        /\ out = input
        /\ Backing_eq(StableId_backing(id), input)

C2_Witness ==
    /\ op = "into_backing"
    /\ domain = "Bird"
    /\ cap = 2
    /\ input = [text |-> <<97, 98>>]
    /\ out = input

\* C3: from_bytes(b).len() is min(b.len(), N) when b has no null byte
\* among its first min(b.len(), N) bytes, and from_bytes(b).as_bytes() has
\* N bytes for every b.
C3_FromBytesLen ==
    /\ (op = "len" /\ made = "from_bytes"
          /\ NoNulBefore(input, Min(Len(input), cap)))
        => out = Min(Len(input), cap)
    /\ (op = "as_bytes" /\ made = "from_bytes") => Len(out) = cap

C3_Witness ==
    /\ op = "len"
    /\ made = "from_bytes"
    /\ cap = 3
    /\ Len(input) = 2
    /\ NoNulBefore(input, 2)
    /\ out = 2

\* C4: the buffer of from_bytes(b) holds b[i] at each index below
\* min(b.len(), N) and 0 at each index from there up to N; a longer input
\* is cut to its first N bytes.
C4_FromBytesBuffer ==
    op = "from_bytes" =>
        /\ Len(tiny.text) = cap
        /\ \A i \in 1..cap :
              tiny.text[i] = IF i <= Min(Len(input), cap) THEN input[i] ELSE 0

C4_Witness ==
    /\ op = "from_bytes"
    /\ cap = 2
    /\ Len(input) = 4
    /\ NoNulBefore(input, 4)
    /\ tiny.text = SubSeq(input, 1, 2)

\* C5: the TinyId<N> obtained by parsing a valid UTF-8 string of any length
\* holds valid UTF-8, and as_str() on it returns without panicking.
C5_ParsedAsStrNeverPanics ==
    FromValidStr =>
        /\ Utf8Valid(TinyId_as_bytes(tiny))
        /\ op = "as_str" => out.ok

\* The constants of a TinyId domain that the conversion keeps apart: at most
\* N bytes long and not ending in a null byte.
FitsTiny(c, n) == Len(c) <= n /\ (Len(c) > 0 => c[Len(c)] # 0)

\* C6 (as stated): two types with distinct constants over one domain get
\* distinct identifiers from stable_type_id(), also in a TinyId domain.
C6_DistinctConstantsDistinctIds ==
    op = "stable_type_id" => out = FALSE

\* C6 (amended): two types with distinct constants over one domain get
\* distinct identifiers from stable_type_id(); in a TinyId<N> domain, provided
\* both constants are at most N bytes long and do not end in a null byte.
C6_DistinctFittingConstantsDistinctIds ==
    (op = "stable_type_id"
        /\ (TinyDomain(domain) => FitsTiny(input[1], cap) /\ FitsTiny(input[2], cap)))
    => out = FALSE

C6_Witness ==
    /\ op = "stable_type_id"
    /\ domain = "Bird"
    /\ cap = 2
    /\ input = <<(<<97, 98>>), (<<97>>)>>
    /\ out = FALSE

\* C7: the serialized form of an identifier is the serialized form of its
\* payload, and deserializing it yields an identifier equal to the original;
\* this for every payload built by the constructors from a string.
C7_SerdeTransparentRoundTrip ==
    made \in {"from_str", "new_id", "new", "generate_id", "stable_type_id"} =>
        /\ op = "serialize" => wire.ok /\ wire = out
        /\ op = "deserialize" => out = TRUE

\* C8: equality, ordering and hashing of two identifiers of one domain give
\* the results of the same operation on their payloads; the domain name
\* takes no part.
C8_ComparisonsDelegate ==
    op = "compare" =>
        /\ out.eq = Backing_eq(input[1], input[2])
        /\ out.hash = <<Backing_hash(domain, input[1], <<>>),
                        Backing_hash(domain, input[2], <<>>)>>
        /\ ~TinyDomain(domain) =>
              /\ out.cmp = Backing_cmp(input[1], input[2])
              /\ out.partial_cmp = Backing_partial_cmp(input[1], input[2])

C8_Witness ==
    /\ op = "compare"
    /\ domain = "Dog"
    /\ input = <<[vec |-> <<97>>], [vec |-> <<97, 98>>]>>
    /\ out.eq = FALSE
    /\ out.cmp = "Less"

\* C9: every generate_id() of a domain with Backing TinyId<N> and Generator
\* TinyIdGen<N> returns an identifier whose backing().len() is N.
C9_GeneratedLenIsCapacity ==
    (op = "len" /\ made = "generate_id") => out = cap

C9_Witness ==
    /\ op = "len"
    /\ made = "generate_id"
    /\ cap = BirdN
    /\ out = BirdN

\* C10: for a string s without null byte and of at most N bytes, new_id(s)
\* of a TinyId<N> domain has backing().len() = s.len() and
\* backing().as_str() = s.
C10_NewIdKeepsShortString ==
    (made = "new_id" /\ TinyDomain(domain) /\ Len(input) <= cap
        /\ NoNulBefore(input, Len(input)))
    => /\ op = "len" => out = Len(input)
       /\ op = "as_str" => out = Ok(input)

C10_Witness ==
    /\ op = "as_str"
    /\ made = "new_id"
    /\ domain = "Bird"
    /\ cap = 3
    /\ input = <<195, 169>>
    /\ out = Ok(input)

\* The offset of the first null byte of a buffer, or its size if it has none.
FirstNulOffset(text) ==
    IF \E i \in 1..Len(text) : text[i] = 0
    THEN (CHOOSE i \in 1..Len(text) :
              text[i] = 0 /\ \A j \in 1..(i - 1) : text[j] # 0) - 1
    ELSE Len(text)

FirstByteIsNul(text) == Len(text) >= 1 /\ text[1] = 0

\* C11 (as stated): len() is the offset of the first null byte, or N if
\* there is none, and is_empty() is true if and only if the first byte of the
\* buffer is null.
C11_LenAndIsEmpty ==
    HasTiny =>
        /\ op = "len" => out = FirstNulOffset(tiny.text)
        /\ op = "is_empty" => (out <=> FirstByteIsNul(tiny.text))

\* C11 (amended): len() is the offset of the first null byte, or N if there
\* is none, and is_empty() is true if and only if the buffer has no byte
\* (N = 0) or its first byte is null.
C11_LenAndIsEmptyOrNoByte ==
    HasTiny =>
        /\ op = "len" => out = FirstNulOffset(tiny.text)
        /\ op = "is_empty" =>
              (out <=> (Len(tiny.text) = 0 \/ FirstByteIsNul(tiny.text)))

C11_Witness ==
    /\ op = "is_empty"
    /\ made = "from_bytes"
    /\ cap = 2
    /\ input = <<>>
    /\ tiny.text = <<0, 0>>
    /\ out = TRUE

Increasing(ids) ==
    \A i \in 1..(Len(ids) - 1) : ids[i].backing < ids[i + 1].backing

\* C12: generate_id_stateful(g) calls the generator g once and returns its
\* identifier unchanged, mutating nothing but g; the identifiers a counter
\* instance returns in successive calls are increasing, and calls on another
\* instance change neither its state nor what it returns.
C12_StatefulGeneration ==
    [][op' = "generate_id_stateful" =>
          LET g == input'
              r == Counter_generate_id_stateful(gens[g])
          IN  /\ id' = r.id
              /\ gens' = [gens EXCEPT ![g] = r.generator]
              /\ issued' = [issued EXCEPT ![g] = Append(@, id')]
              /\ Increasing(issued'[g])]_vars

C12_Witness ==
    /\ op = "generate_id_stateful"
    /\ input = 1
    /\ Len(issued[1]) = 2
    /\ Len(issued[2]) = 1
    /\ id = [backing |-> 1]
    /\ gens[1].next = 2
    /\ gens[2].next = 1

\* C13: for every TinyId built by from_bytes or from_str from valid UTF-8
\* input, also input with a null byte followed by non-null bytes, len()
\* equals the byte length of as_str().
C13_LenAgreesWithAsStr ==
    (op = "len" /\ made \in {"from_bytes", "from_str"} /\ Utf8Valid(input)) =>
        /\ TinyId_as_str(tiny).ok
        /\ out = Len(TinyId_as_str(tiny).val)

====
